---- MODULE Spec2Model ----
(***************************************************************************)
(* Model of src/graph.py (class Graph) and src/connection.py (class        *)
(* Connection): a weighted undirected graph kept as a Python dict from     *)
(* node identifier to a list of Connection objects, with edge insertion,   *)
(* edge-list export, contraction of a node with two edges and the two      *)
(* shortest-path entry points.                                             *)
(*                                                                         *)
(* The dict self._graph is modelled as the sequence of its items in dict   *)
(* iteration order (Python 3 dicts iterate in key insertion order); each   *)
(* item is [key |-> node, val |-> list of connections].                    *)
(***************************************************************************)
EXTENDS Integers, Sequences, FiniteSets, TLC

\* ---------------------------------------------------------------- bounds
\* node identifiers offered to the calls are 0..MaxNode
MaxNode == 1
\* distances offered to add_edge are -1..MaxWeight
MaxWeight == 2
\* add_edge is offered while fewer than MaxEdges undirected edges are stored
MaxEdges == 1
\* a contraction is offered while the distance it splices in is at most
\* MaxDistance (the contractions of the __main__ graph splice in 6 and 9,
\* those of the triangle 7 and then 12)
MaxDistance == 12

Nodes == 0..MaxNode
Distances == -1..MaxWeight

\* the edge list of the __main__ block
DemoEdges ==
    << <<0, 1, 4>>, <<0, 3, 2>>, <<1, 2, 5>>, <<1, 3, 1>>, <<2, 3, 8>>,
       <<2, 4, 1>>, <<2, 5, 6>>, <<3, 4, 9>>, <<4, 5, 3>> >>

\* the edges of the commented-out example of the __main__ block, whose node 1
\* is then contracted
TriangleEdges == << <<1, 2, 3>>, <<1, 3, 4>>, <<2, 3, 5>> >>

\* a constructor input with two components: an edge and a separate self-loop
IslandEdges == << <<0, 1, 1>>, <<2, 2, 0>> >>

\* float('inf'): a value that is no distance; Plus and Less give it the
\* arithmetic of IEEE infinity against non-negative integers
Inf == -1

Plus(a, b) == IF a = Inf THEN Inf ELSE a + b

Less(a, b) == a # Inf /\ (b = Inf \/ a < b)

\* ------------------------------------------------------------ Connection
Connection(node, distance) == [node |-> node, distance |-> distance]

\* ------------------------------------------------- dict self._graph
Keys(g) == {g[i].key : i \in DOMAIN g}

Has(g, k) == k \in Keys(g)

IndexOf(g, k) == CHOOSE i \in DOMAIN g : g[i].key = k

Get(g, k) == g[IndexOf(g, k)].val

\* self._graph[k] = v : an existing key keeps its place, a new key goes last
SetItem(g, k, v) ==
    IF Has(g, k)
    THEN [g EXCEPT ![IndexOf(g, k)] = [key |-> k, val |-> v]]
    ELSE Append(g, [key |-> k, val |-> v])

\* del(self._graph[k])
DelItem(g, k) == SelectSeq(g, LAMBDA e : e.key # k)

\* ---------------------------------------------------------------- errors
OK == "none"
GraphException == "GraphException"
KeyError == "KeyError"
IndexError == "IndexError"
NotImplementedError == "NotImplementedError"

\* ------------------------------------------------------------- add_edge
\* a plausible slip: the entry of node1 is created before the distance test
add_edge_entry_first(g, node1, node2, distance) ==
    LET g0 == IF Has(g, node1) THEN g ELSE SetItem(g, node1, << >>)
    IN  IF distance < 0
        THEN [err |-> GraphException, graph |-> g0]
        ELSE LET g2 == SetItem(g0, node1,
                               Append(Get(g0, node1), Connection(node2, distance)))
                 g3 == IF Has(g2, node2) THEN g2 ELSE SetItem(g2, node2, << >>)
                 g4 == SetItem(g3, node2,
                               Append(Get(g3, node2), Connection(node1, distance)))
             IN  [err |-> OK, graph |-> g4]

\* a plausible slip: the reverse connection is forgotten
add_edge_one_way(g, node1, node2, distance) ==
    IF distance < 0
    THEN [err |-> GraphException, graph |-> g]
    ELSE LET g1 == IF Has(g, node1) THEN g ELSE SetItem(g, node1, << >>)
             g2 == SetItem(g1, node1,
                           Append(Get(g1, node1), Connection(node2, distance)))
             g3 == IF Has(g2, node2) THEN g2 ELSE SetItem(g2, node2, << >>)
         IN  [err |-> OK, graph |-> g3]

add_edge(g, node1, node2, distance) ==
    IF distance < 0
    THEN [err |-> GraphException, graph |-> g]
    ELSE LET g1 == IF Has(g, node1) THEN g ELSE SetItem(g, node1, << >>)
             g2 == SetItem(g1, node1,
                           Append(Get(g1, node1), Connection(node2, distance)))
             g3 == IF Has(g2, node2) THEN g2 ELSE SetItem(g2, node2, << >>)
             g4 == SetItem(g3, node2,
                           Append(Get(g3, node2), Connection(node1, distance)))
         IN  [err |-> OK, graph |-> g4]

\* Graph.__init__(connections): one add_edge per record, in order
RECURSIVE GraphInit(_, _, _)
GraphInit(g, connections, i) ==
    IF i > Len(connections)
    THEN [err |-> OK, graph |-> g]
    ELSE IF Len(connections[i]) # 3
         THEN [err |-> GraphException, graph |-> g]
         ELSE LET r == add_edge(g, connections[i][1], connections[i][2],
                                connections[i][3])
              IN  IF r.err # OK THEN r ELSE GraphInit(r.graph, connections, i + 1)

\* ------------------------------------------------------ get_connections
EdgeRecords(node, edges) ==
    [j \in DOMAIN edges |-> <<node, edges[j].node, edges[j].distance>>]

\* a plausible slip: each true edge is exported once
RECURSIVE get_connections_dedup(_)
get_connections_dedup(g) ==
    IF g = << >>
    THEN << >>
    ELSE SelectSeq(EdgeRecords(Head(g).key, Head(g).val),
                   LAMBDA r : r[1] <= r[2])
         \o get_connections_dedup(Tail(g))

RECURSIVE get_connections(_)
get_connections(g) ==
    IF g = << >>
    THEN << >>
    ELSE EdgeRecords(Head(g).key, Head(g).val) \o get_connections(Tail(g))

\* ------------------------------------------ contract_node_with_two_edges
\* list.remove(x): drops the first element equal to x (Connection.__eq__
\* compares both fields)
RemoveFirst(list, x) ==
    LET i == CHOOSE k \in DOMAIN list :
                 list[k] = x /\ \A m \in 1..(k - 1) : list[m] # x
    IN  SubSeq(list, 1, i - 1) \o SubSeq(list, i + 1, Len(list))

\* for inv_connection in self._graph[connection.node]: ... .remove(...)
\* The list is changed while it is iterated: the iterator keeps a position,
\* so the element that follows a removed one is skipped.
RECURSIVE RemoveBackEdges(_, _, _)
RemoveBackEdges(list, idx, node) ==
    IF idx > Len(list)
    THEN list
    ELSE IF list[idx].node = node
         THEN RemoveBackEdges(RemoveFirst(list, list[idx]), idx + 1, node)
         ELSE RemoveBackEdges(list, idx + 1, node)

\* for connection in connections: the lookup self._graph[connection.node]
\* raises KeyError when that key is gone, leaving what was done so far
RECURSIVE StripNeighbours(_, _, _, _)
StripNeighbours(g, connections, k, node) ==
    IF k > Len(connections)
    THEN [err |-> OK, graph |-> g]
    ELSE LET n == connections[k].node
         IN  IF ~Has(g, n)
             THEN [err |-> KeyError, graph |-> g]
             ELSE StripNeighbours(
                      SetItem(g, n, RemoveBackEdges(Get(g, n), 1, node)),
                      connections, k + 1, node)

\* a plausible slip: only the first distance is carried over
NewDistanceFirstOnly(connections) == connections[1].distance

\* connections[0].distance + connections[1].distance
NewDistance(connections) == connections[1].distance + connections[2].distance

\* a plausible slip: the degree test lets nodes with more than two edges pass
contract_degree_at_least_two(g, node) ==
    IF ~Has(g, node)
    THEN [err |-> GraphException, graph |-> g]
    ELSE IF Len(Get(g, node)) < 2
         THEN [err |-> GraphException, graph |-> g]
         ELSE LET connections == Get(g, node)
                  r == StripNeighbours(DelItem(g, node), connections, 1, node)
              IN  IF r.err # OK
                  THEN r
                  ELSE add_edge(r.graph, connections[1].node,
                                connections[2].node, NewDistance(connections))

contract_node_with_two_edges(g, node) ==
    IF ~Has(g, node)
    THEN [err |-> GraphException, graph |-> g]
    ELSE IF Len(Get(g, node)) # 2
         THEN [err |-> GraphException, graph |-> g]
         ELSE LET connections == Get(g, node)
                  r == StripNeighbours(DelItem(g, node), connections, 1, node)
              IN  IF r.err # OK
                  THEN r
                  ELSE add_edge(r.graph, connections[1].node,
                                connections[2].node, NewDistance(connections))

\* --------------------------------------------------- dijkstra_version_1
\* The lists D and tight have len(self._graph) places, indexed from 0; node
\* identifiers are non-negative here, so an index is valid iff it is < n.
\* tight is written and never read; it is left out.

\* a plausible slip: the estimate of node i is left out of the relaxation
RECURSIVE RelaxWithoutBase(_, _, _, _, _)
RelaxWithoutBase(D, i, edges, j, n) ==
    IF j > Len(edges)
    THEN [err |-> OK, D |-> D]
    ELSE LET c == edges[j]
         IN  IF c.node >= n
             THEN [err |-> IndexError, D |-> D]
             ELSE IF Less(c.distance, D[c.node])
                  THEN RelaxWithoutBase([D EXCEPT ![c.node] = c.distance],
                                        i, edges, j + 1, n)
                  ELSE RelaxWithoutBase(D, i, edges, j + 1, n)

\* for connection in self._graph[i]: relax D[connection.node]
RECURSIVE Relax(_, _, _, _, _)
Relax(D, i, edges, j, n) ==
    IF j > Len(edges)
    THEN [err |-> OK, D |-> D]
    ELSE LET c == edges[j]
         IN  IF c.node >= n
             THEN [err |-> IndexError, D |-> D]
             ELSE IF Less(Plus(D[i], c.distance), D[c.node])
                  THEN Relax([D EXCEPT ![c.node] = Plus(D[i], c.distance)],
                             i, edges, j + 1, n)
                  ELSE Relax(D, i, edges, j + 1, n)

\* for i in range(len(tight)): self._graph[i] raises KeyError for a missing i
RECURSIVE Sweep(_, _, _, _)
Sweep(g, D, i, n) ==
    IF i >= n
    THEN [err |-> OK, D |-> D]
    ELSE IF ~Has(g, i)
         THEN [err |-> KeyError, D |-> D]
         ELSE LET r == Relax(D, i, Get(g, i), 1, n)
              IN  IF r.err # OK THEN r ELSE Sweep(g, r.D, i + 1, n)

dijkstra_version_1(g, node1, node2) ==
    IF ~Has(g, node1) \/ ~Has(g, node2)
    THEN [err |-> GraphException, dist |-> Inf]
    ELSE LET n == Len(g)
         IN  IF node1 >= n
             THEN [err |-> IndexError, dist |-> Inf]
             ELSE LET D0 == [i \in 0..(n - 1) |-> IF i = node1 THEN 0 ELSE Inf]
                      r  == Sweep(g, D0, 0, n)
                  IN  IF r.err # OK
                      THEN [err |-> r.err, dist |-> Inf]
                      ELSE IF node2 >= n
                           THEN [err |-> IndexError, dist |-> Inf]
                           ELSE [err |-> OK, dist |-> r.D[node2]]

\* ------------------------------------------- dijkstra_version_2, dijkstra
\* the body is commented out; the method raises unconditionally
dijkstra_version_2(g, node1, node2) ==
    [err |-> NotImplementedError, dist |-> Inf]

dijkstra(g, node1, node2) == dijkstra_version_2(g, node1, node2)

\* ------------------------------------------------------------ the state
VARIABLES
    graph,        \* self._graph after the last call
    before,       \* self._graph when the last call was made
    op,           \* the method last called
    args,         \* its arguments
    err,          \* the exception it raised, or OK
    dist,         \* the value a shortest-path call returned
    connections   \* the value get_connections returned

vars == <<graph, before, op, args, err, dist, connections>>

\* the connection lists the constructor is given
InitialConnections == {<< >>, DemoEdges, TriangleEdges, IslandEdges}

\* the node identifiers a call may name
Callable(g) == Nodes \cup Keys(g)

\* node passes both tests of contract_node_with_two_edges
Contractible(g, node) == Has(g, node) /\ Len(Get(g, node)) = 2

SplicedDistance(g, node) == NewDistance(Get(g, node))

RECURSIVE NumStored(_)
NumStored(g) == IF g = << >> THEN 0 ELSE Len(Head(g).val) + NumStored(Tail(g))

Init ==
    /\ \E cs \in InitialConnections : graph = GraphInit(<< >>, cs, 1).graph
    /\ before = << >>
    /\ op = "Graph"
    /\ args = << >>
    /\ err = OK
    /\ dist = Inf
    /\ connections = << >>

AddEdge ==
    \E node1 \in Nodes, node2 \in Nodes, distance \in Distances :
        /\ distance < 0 \/ NumStored(graph) < 2 * MaxEdges
        /\ LET r == add_edge(graph, node1, node2, distance)
           IN  /\ graph' = r.graph
               /\ err' = r.err
        /\ before' = graph
        /\ op' = "add_edge"
        /\ args' = <<node1, node2, distance>>
        /\ dist' = Inf
        /\ connections' = << >>

GetConnections ==
    /\ connections' = get_connections(graph)
    /\ graph' = graph
    /\ before' = graph
    /\ op' = "get_connections"
    /\ args' = << >>
    /\ err' = OK
    /\ dist' = Inf

ContractNodeWithTwoEdges ==
    \E node \in Callable(graph) :
        /\ Contractible(graph, node) => SplicedDistance(graph, node) <= MaxDistance
        /\ LET r == contract_node_with_two_edges(graph, node)
           IN  /\ graph' = r.graph
               /\ err' = r.err
        /\ before' = graph
        /\ op' = "contract_node_with_two_edges"
        /\ args' = <<node>>
        /\ dist' = Inf
        /\ connections' = << >>

DijkstraVersion1 ==
    \E node1 \in Callable(graph), node2 \in Callable(graph) :
        /\ LET r == dijkstra_version_1(graph, node1, node2)
           IN  /\ dist' = r.dist
               /\ err' = r.err
        /\ graph' = graph
        /\ before' = graph
        /\ op' = "dijkstra_version_1"
        /\ args' = <<node1, node2>>
        /\ connections' = << >>

Dijkstra ==
    \E node1 \in Callable(graph), node2 \in Callable(graph) :
        /\ LET r == dijkstra(graph, node1, node2)
           IN  /\ dist' = r.dist
               /\ err' = r.err
        /\ graph' = graph
        /\ before' = graph
        /\ op' = "dijkstra"
        /\ args' = <<node1, node2>>
        /\ connections' = << >>

Next ==
    \/ AddEdge
    \/ GetConnections
    \/ ContractNodeWithTwoEdges
    \/ DijkstraVersion1
    \/ Dijkstra

Spec == Init /\ [][Next]_vars

\* ============================================================ properties
\* ----------------------------------------------- reference definitions
\* the stored half-edges of g, as (source, position) pairs
HalfEdges(g) == {<<u, j>> \in Keys(g) \X (1..NumStored(g)) : j <= Len(Get(g, u))}

\* the stored half-edges of g, as (source, destination, distance) triples
Triples(g) ==
    UNION {{<<g[i].key, g[i].val[j].node, g[i].val[j].distance>> :
               j \in DOMAIN g[i].val} : i \in DOMAIN g}

\* the least element of a set of distances, Inf when none is finite
MinDist(S) ==
    IF \A x \in S : x = Inf
    THEN Inf
    ELSE CHOOSE x \in S : x # Inf /\ \A y \in S : y = Inf \/ x <= y

\* one round of relaxing every half-edge of E (Bellman-Ford)
RelaxAll(E, D) ==
    [v \in DOMAIN D |->
        MinDist({D[v]} \cup
                {Plus(D[e[1]], e[3]) :
                    e \in {x \in E : x[2] = v /\ x[1] \in DOMAIN D}})]

RECURSIVE Rounds(_, _, _)
Rounds(E, D, k) == IF k = 0 THEN D ELSE Rounds(E, RelaxAll(E, D), k - 1)

\* the least total weight of a path from s to each node of g, Inf when there
\* is no path
DistancesFrom(g, s) ==
    Rounds(Triples(g), [v \in Keys(g) |-> IF v = s THEN 0 ELSE Inf], Len(g))

ShortestDistance(g, s, t) == DistancesFrom(g, s)[t]

\* the node identifiers of g are exactly 0..N-1
Sequential(g) == Keys(g) = 0..(Len(g) - 1)

\* how many elements of list equal x
Count(list, x) == Cardinality({j \in DOMAIN list : list[j] = x})

\* the arguments of the last call
Arg1 == args[1]
Arg2 == args[2]
Arg3 == args[3]

\* the list stored for k, empty when k is no key
Stored(g, k) == IF Has(g, k) THEN Get(g, k) ELSE << >>

\* the keys of g in dict order
KeyOrder(g) == [i \in DOMAIN g |-> g[i].key]

\* the connections a successful add_edge(node1, node2, distance) appends to
\* the list of k
Appended(k, node1, node2, distance) ==
    (IF k = node1 THEN <<Connection(node2, distance)>> ELSE << >>)
    \o (IF k = node2 THEN <<Connection(node1, distance)>> ELSE << >>)

\* --------------------------------------------------------------------- C1
\* C1: in every reachable graph, for all nodes u, v and weights w the list of
\* u holds as many connections (v, w) as the list of v holds connections
\* (u, w), and the destination of every stored connection is a key.
UndirectedPairing ==
    \A u \in Keys(graph) : \A j \in DOMAIN Get(graph, u) :
        LET c == Get(graph, u)[j]
        IN  /\ Has(graph, c.node)
            /\ Count(Get(graph, u), c)
                   = Count(Get(graph, c.node), Connection(u, c.distance))

\* a contraction has completed and left edges behind
UndirectedPairingWitness ==
    /\ op = "contract_node_with_two_edges"
    /\ err = OK
    /\ NumStored(graph) > 0

ContractRejects ==
    (op = "contract_node_with_two_edges" /\ ~Contractible(before, Arg1)) =>
        (err = GraphException /\ graph = before)

\* a node with three or more connections was offered
ContractRejectsWitness ==
    /\ op = "contract_node_with_two_edges"
    /\ Has(before, Arg1)
    /\ Len(Get(before, Arg1)) >= 3
    /\ err = GraphException

\* --------------------------------------------------------------------- C3
\* the two neighbours and the two distances of a node with two connections
NeighbourA(g, X) == Get(g, X)[1].node
NeighbourB(g, X) == Get(g, X)[2].node

\* C3: for every present node X with exactly two stored connections (to A
\* with weight a, to B with weight b; A = B and A = B = X included) the
\* contraction completes without error; afterwards X is no key, no stored
\* connection leads to X, one pair (A to B, a+b) / (B to A, a+b) has been
\* appended, and every other stored connection is unchanged.
ContractPostcondition ==
    (op = "contract_node_with_two_edges" /\ Contractible(before, Arg1)) =>
        LET X == Arg1
            A == NeighbourA(before, X)
            B == NeighbourB(before, X)
        IN  /\ err = OK
            /\ ~Has(graph, X)
            /\ \A e \in HalfEdges(graph) : Get(graph, e[1])[e[2]].node # X
            /\ KeyOrder(graph) = SelectSeq(KeyOrder(before), LAMBDA k : k # X)
            /\ \A k \in Keys(graph) :
                   Get(graph, k)
                       = SelectSeq(Get(before, k), LAMBDA c : c.node # X)
                         \o Appended(k, A, B, SplicedDistance(before, X))

\* --------------------------------------------------------------------- C4
\* X has exactly two connections, to two distinct neighbours other than X
TwoDistinctNeighbours(g, X) ==
    /\ Contractible(g, X)
    /\ NeighbourA(g, X) # NeighbourB(g, X)
    /\ NeighbourA(g, X) # X
    /\ NeighbourB(g, X) # X

BothPresent == Has(graph, Arg1) /\ Has(graph, Arg2)

\* --------------------------------------------------------------------- C2
\* C2: dijkstra(s, t) returns, for every pair of present nodes joined by a
\* path, the least total weight of a path from s to t (6 for the pair (2, 3)
\* in the graph of the __main__ block).
DijkstraReturnsShortest ==
    (op = "dijkstra" /\ BothPresent
        /\ ShortestDistance(graph, Arg1, Arg2) # Inf)
        => (err = OK /\ dist = ShortestDistance(graph, Arg1, Arg2))

\* --------------------------------------------------------------------- C5
\* C5: in a graph whose node identifiers are exactly 0..N-1,
\* dijkstra_version_1 returns the shortest-path distance for every pair of
\* present nodes.
SweepReturnsShortest ==
    (op = "dijkstra_version_1" /\ Sequential(graph) /\ BothPresent)
        => (err = OK /\ dist = ShortestDistance(graph, Arg1, Arg2))

\* --------------------------------------------------------------------- C8
\* C8: in every reachable graph dijkstra_version_1 fails if and only if one
\* of its two nodes is absent, and then with GraphException; with both
\* nodes present it returns a distance.
SweepFailsOnlyWhenAbsent ==
    op = "dijkstra_version_1" =>
        /\ (err # OK) <=> ~BothPresent
        /\ (err # OK) => err = GraphException

Offset(g, i) == NumStored(SubSeq(g, 1, i - 1))

\* one record per stored connection, each list in its stored order, and the
\* graph left as it was
OneRecordPerHalfEdge ==
    /\ graph = before
    /\ Len(connections) = NumStored(graph)
    /\ \A u \in Keys(graph) :
           SelectSeq(connections, LAMBDA r : r[1] = u)
               = EdgeRecords(u, Get(graph, u))

\* C10 as stated: get_connections yields one record per stored connection,
\* in ascending order of the source node identifier and, within a source
\* node, in the order the connections were inserted.
GetConnectionsAscending ==
    op = "get_connections" =>
        /\ OneRecordPerHalfEdge
        /\ \A p \in DOMAIN connections, q \in DOMAIN connections :
               p < q => connections[p][1] <= connections[q][1]

\* C10, amended: get_connections yields one record per stored connection,
\* the source nodes in the order in which their entries were created in the
\* dict (not in ascending order of identifier) and, within a source node, in
\* the order the connections were inserted.
GetConnectionsInKeyOrder ==
    op = "get_connections" =>
        /\ OneRecordPerHalfEdge
        /\ \A i \in DOMAIN graph : \A j \in DOMAIN graph[i].val :
               connections[Offset(graph, i) + j]
                   = <<graph[i].key, graph[i].val[j].node,
                       graph[i].val[j].distance>>

\* the export of a graph whose entries are not in ascending order and that
\* holds parallel edges
GetConnectionsInKeyOrderWitness ==
    /\ op = "get_connections"
    /\ \E i \in DOMAIN graph, j \in DOMAIN graph :
           i < j /\ graph[i].key > graph[j].key
    /\ \E u \in Keys(graph) :
           \E i \in DOMAIN Get(graph, u), j \in DOMAIN Get(graph, u) :
               i < j /\ Get(graph, u)[i].node = Get(graph, u)[j].node

====
